---- MODULE Spec2Model ----
(***************************************************************************)
(* The two JSONL analysers of the repository:                              *)
(*   crates/tom-stress/scripts/analyze-stress.py     ("stress")            *)
(*   experiments/iroh-poc/scripts/analyze-results.py ("results")           *)
(* A file is a sequence of lines, a line is blank, not JSON, a JSON value  *)
(* that is no object, or a JSON object (a function from keys to values).   *)
(* Floats are kept exact as rationals <<numerator, denominator>>.          *)
(***************************************************************************)
EXTENDS Integers, Sequences, FiniteSets, TLC

\* prog     the script that runs: "stress", "results" ("none": no batch)
\* argv     sys.argv[1:], a sequence of paths
\* disk     the file each path names
\* pc       where main() is: "start", "loop", "exited"
\* i        the number of files the per-file loop has gone past
\* printed  the number of results print_single has rendered
\* results  the accumulation list of analyze-results.py
\* out      the lines printed so far
\* exit     the exit code of the process, -1 while it runs
\* input    the argument of a function applied on its own (a file, RTTs)
\* applied  the function applied to input, "none" before
\* ret      what it returned or raised
VARIABLES prog, argv, disk, pc, i, printed, results, out, exit, input, applied, ret

vars == <<prog, argv, disk, pc, i, printed, results, out, exit, input, applied, ret>>

batchVars == <<prog, argv, disk, pc, i, printed, results, out, exit>>

fnVars == <<input, applied, ret>>

(***************************************************************************)
(* Bounds of the model.                                                    *)
(***************************************************************************)
MaxFiles == 2

MaxLines == 3

MaxRun == 11

MaxTail == 2

(***************************************************************************)
(* JSON objects and lines.                                                 *)
(***************************************************************************)
NoDict == [k \in {} |-> 0]

Has(d, k) == k \in DOMAIN d

Get(d, k, dflt) == IF k \in DOMAIN d THEN d[k] ELSE dflt

Blank == [t |-> "blank", d |-> NoDict]

NotJson == [t |-> "notjson", d |-> NoDict]

Scalar == [t |-> "scalar", d |-> NoDict]

Obj(d) == [t |-> "object", d |-> d]

Ok(v) == [exc |-> "none", val |-> v]

Raise(e) == [exc |-> e, val |-> <<>>]

(***************************************************************************)
(* Rationals.                                                              *)
(***************************************************************************)
Rat(n, d) == <<n, d>>

RLeq(a, b) == a[1] * b[2] <= b[1] * a[2]

RAdd(a, b) == <<a[1] * b[2] + b[1] * a[2], a[2] * b[2]>>

(***************************************************************************)
(* Builtins and the statistics module, on sequences of integers.           *)
(***************************************************************************)
RECURSIVE InsertSorted(_, _)
InsertSorted(x, s) ==
    IF s = <<>> THEN <<x>>
    ELSE IF x < Head(s) THEN <<x>> \o s
    ELSE <<Head(s)>> \o InsertSorted(x, Tail(s))

RECURSIVE sorted(_)
sorted(s) ==
    IF s = <<>> THEN <<>>
    ELSE InsertSorted(s[Len(s)], sorted(SubSeq(s, 1, Len(s) - 1)))

RECURSIVE sum(_)
sum(s) == IF s = <<>> THEN 0 ELSE Head(s) + sum(Tail(s))

RECURSIVE min(_)
min(s) ==
    IF Len(s) = 1 THEN s[1]
    ELSE LET m == min(Tail(s)) IN IF m < Head(s) THEN m ELSE Head(s)

RECURSIVE max(_)
max(s) ==
    IF Len(s) = 1 THEN s[1]
    ELSE LET m == max(Tail(s)) IN IF m > Head(s) THEN m ELSE Head(s)

mean(s) == Rat(sum(s), Len(s))

median(s) ==
    LET n == Len(s)
        d == sorted(s)
    IN  IF n % 2 = 1 THEN Rat(d[(n \div 2) + 1], 1)
        ELSE Rat(d[n \div 2] + d[(n \div 2) + 1], 2)

\* statistics.stdev(s) is the square root of this sample variance
variance(s) ==
    LET n == Len(s)
        sq == [j \in 1..n |-> s[j] * s[j]]
    IN  Rat(n * sum(sq) - sum(s) * sum(s), n * (n - 1))

\* int(n * 0.95): the double product truncates to floor(95 n / 100) for every
\* n below 100000
P95IndexLow(n) == (n * 5) \div 100

P95IndexNinety(n) == (n * 90) \div 100

P95Index(n) == (n * 95) \div 100

\* sorted(rtts)[int(len(rtts) * 0.95)], Python indices start at 0
p95(s) == Rat(sorted(s)[P95Index(Len(s)) + 1], 1)

(***************************************************************************)
(* Files and the line loader.                                              *)
(***************************************************************************)
Missing == [exists |-> FALSE, lines |-> <<>>]

File(ls) == [exists |-> TRUE, lines |-> ls]

\* json.loads(line): any JSON value decodes, an object or not
Decoded(line) == [isdict |-> line.t = "object", d |-> line.d]

RECURSIVE LoadFrom(_, _)
LoadFrom(ls, events) ==
    IF ls = <<>> THEN events
    ELSE LET line == Head(ls)
         IN  IF line.t = "blank" THEN LoadFrom(Tail(ls), events)
             ELSE IF line.t = "notjson" THEN LoadFrom(Tail(ls), events)
             ELSE LoadFrom(Tail(ls), Append(events, Decoded(line)))

load_events(file) ==
    IF ~file.exists THEN Raise("FileNotFoundError")
    ELSE Ok(LoadFrom(file.lines, <<>>))

\* e.get("event") raises AttributeError on a decoded value that is no dict
AllDicts(events) == \A j \in DOMAIN events : events[j].isdict

OfKind(events, kind) ==
    SelectSeq([j \in DOMAIN events |-> events[j].d],
              LAMBDA e : Has(e, "event") /\ e["event"] = kind)

HasAll(ds, key) == \A j \in DOMAIN ds : Has(ds[j], key)

Field(ds, key) == [j \in DOMAIN ds |-> ds[j][key]]

Count(ds, key, v) ==
    Len(SelectSeq(ds, LAMBDA e : Has(e, key) /\ e[key] = v))

FirstSummary(summaries) == summaries[1]

LastSummary(summaries) == summaries[Len(summaries)]

(***************************************************************************)
(* analyze-stress.py: the four report sections.  A printed line is a       *)
(* record: k names the line, the other fields are the values it shows.     *)
(***************************************************************************)
StressRttLines(rtts) ==
    << [k |-> "RTT min", v |-> Rat(min(rtts), 1)],
       [k |-> "RTT max", v |-> Rat(max(rtts), 1)],
       [k |-> "RTT avg", v |-> mean(rtts)] >>
    \o (IF Len(rtts) > 1
        THEN << [k |-> "RTT median", v |-> median(rtts)],
                [k |-> "RTT stddev", var |-> variance(rtts)],
                [k |-> "RTT p95", v |-> p95(rtts)] >>
        ELSE <<>>)

StressSummaryLines(summaries) ==
    IF summaries = <<>> THEN <<>>
    ELSE LET s == LastSummary(summaries)
             total == Get(s, "total_pings", 0)
             ok == Get(s, "successful", 0)
             reconn == Get(s, "reconnections", 0)
         IN  << IF total # 0
                THEN [k |-> "Success rate", ok |-> ok, total |-> total,
                      pct |-> Rat(100 * ok, total)]
                ELSE [k |-> "empty line"],
                [k |-> "Reconnections", v |-> reconn] >>

StressPathLines(path_changes) ==
    IF path_changes = <<>> THEN <<>>
    ELSE << [k |-> "Path changes", n |-> Len(path_changes),
             direct |-> Count(path_changes, "kind", "direct"),
             relay |-> Count(path_changes, "kind", "relay")] >>

analyze_pings(events, label) ==
    IF ~AllDicts(events) THEN Raise("AttributeError")
    ELSE LET pings == OfKind(events, "ping")
         IN  IF pings = <<>> THEN Ok(<<>>)
             ELSE IF ~HasAll(pings, "rtt_ms") THEN Raise("KeyError")
             ELSE Ok(<< [k |-> "section", sec |-> "PING", label |-> label],
                        [k |-> "Total pings", n |-> Len(pings)] >>
                     \o StressRttLines(Field(pings, "rtt_ms"))
                     \o StressSummaryLines(OfKind(events, "summary"))
                     \o StressPathLines(OfKind(events, "path_change")))

BurstLines(r) ==
    << [k |-> "Round", v |-> Get(r, "round", "?")],
       [k |-> "Sent/Acked", sent |-> Get(r, "messages_sent", 0),
        acked |-> Get(r, "messages_acked", 0), lost |-> Get(r, "lost", 0)],
       [k |-> "Payload", v |-> Get(r, "payload_size", 0)],
       [k |-> "Throughput", mps |-> Get(r, "messages_per_sec", 0),
        kbps |-> Rat(Get(r, "bytes_per_sec", 0), 1024)],
       [k |-> "Duration", v |-> Get(r, "elapsed_ms", 0)],
       [k |-> "RTT", rmin |-> Get(r, "rtt_min_ms", 0),
        ravg |-> Get(r, "rtt_avg_ms", 0), rmax |-> Get(r, "rtt_max_ms", 0)] >>

RECURSIVE Flatten(_)
Flatten(ss) == IF ss = <<>> THEN <<>> ELSE Head(ss) \o Flatten(Tail(ss))

analyze_burst(events, label) ==
    LET rs == OfKind(events, "burst_result")
    IN  IF rs = <<>> THEN <<>>
        ELSE << [k |-> "section", sec |-> "BURST", label |-> label] >>
             \o Flatten([j \in DOMAIN rs |-> BurstLines(rs[j])])

SizeStr(size) ==
    IF size >= 1024 THEN [n |-> size \div 1024, unit |-> "KB"]
    ELSE [n |-> size, unit |-> "B"]

\* r.get(key) or 0: an absent (or null, or zero) field is shown as 0
LadderRow(r) ==
    [k |-> "ladder row", size |-> SizeStr(Get(r, "size", 0)),
     ok |-> Get(r, "successful", 0), fail |-> Get(r, "failed", 0),
     rmin |-> Get(r, "rtt_min_ms", 0), ravg |-> Get(r, "rtt_avg_ms", 0),
     rmax |-> Get(r, "rtt_max_ms", 0)]

analyze_ladder(events, label) ==
    LET rs == OfKind(events, "ladder_result")
    IN  IF rs = <<>> THEN <<>>
        ELSE << [k |-> "section", sec |-> "LADDER", label |-> label],
                [k |-> "ladder header"] >>
             \o [j \in DOMAIN rs |-> LadderRow(rs[j])]

FanoutLines(r) ==
    << [k |-> "Targets", v |-> Get(r, "target_count", "?")],
       [k |-> "Sent/Delivered", sent |-> Get(r, "total_sent", 0),
        delivered |-> Get(r, "total_delivered", 0)],
       [k |-> "Failed", v |-> Get(r, "total_failed", 0)],
       [k |-> "Avg RTT", v |-> Get(r, "avg_rtt_ms", 0)],
       [k |-> "Max RTT", v |-> Get(r, "max_rtt_ms", 0)] >>

analyze_fanout(events, label) ==
    LET rs == OfKind(events, "fanout_result")
    IN  IF rs = <<>> THEN <<>>
        ELSE << [k |-> "section", sec |-> "FANOUT", label |-> label] >>
             \o Flatten([j \in DOMAIN rs |-> FanoutLines(rs[j])])

\* the body of the per-file loop once the events are loaded and not empty
StressReport(events, label) ==
    LET p == analyze_pings(events, label)
    IN  IF p.exc # "none" THEN p
        ELSE Ok(p.val \o analyze_burst(events, label)
                \o analyze_ladder(events, label)
                \o analyze_fanout(events, label))

(***************************************************************************)
(* analyze-results.py: analyze_file, print_single, print_comparison.       *)
(***************************************************************************)
Opt(cond, d) == IF cond THEN d ELSE NoDict

\* (len(direct_pings) / len(pings) * 100) if pings else 0
DirectPct(direct_pings, pings) ==
    IF pings # <<>> THEN Rat(Len(direct_pings) * 100, Len(pings)) ELSE Rat(0, 1)

ResultsRttStats(all_rtts) ==
    Opt(all_rtts # <<>>,
        [rtt_mean |-> mean(all_rtts), rtt_median |-> median(all_rtts),
         rtt_p95 |-> p95(all_rtts), rtt_min |-> Rat(min(all_rtts), 1),
         rtt_max |-> Rat(max(all_rtts), 1)])

analyze_file(path, file) ==
    LET loaded == load_events(file)
        events == loaded.val
        pings == OfKind(events, "ping")
        path_changes == OfKind(events, "path_change")
        hole_punches == OfKind(events, "hole_punch")
        disconnects == OfKind(events, "disconnected")
        reconnects == OfKind(events, "reconnected")
        summaries == OfKind(events, "summary")
        direct_pings == SelectSeq(pings, LAMBDA q : Get(q, "via", "") = "DIRECT")
        relay_pings == SelectSeq(pings, LAMBDA q : Get(q, "via", "") = "RELAY")
        direct_rtts == Field(direct_pings, "rtt_ms")
        relay_rtts == Field(relay_pings, "rtt_ms")
        recon_times == Field(reconnects, "reconnect_time_ms")
    IN  IF loaded.exc # "none" THEN loaded
        ELSE IF ~AllDicts(events) THEN Raise("AttributeError")
        ELSE IF ~HasAll(pings, "rtt_ms") THEN Raise("KeyError")
        ELSE IF ~HasAll(reconnects, "reconnect_time_ms") THEN Raise("KeyError")
        ELSE Ok([file |-> path,
                 total_pings |-> Len(pings),
                 direct_pings |-> Len(direct_pings),
                 relay_pings |-> Len(relay_pings),
                 direct_pct |-> DirectPct(direct_pings, pings),
                 path_changes |-> Len(path_changes),
                 hole_punches |-> Len(hole_punches),
                 disconnections |-> Len(disconnects),
                 reconnections |-> Len(reconnects)]
                @@ ResultsRttStats(Field(pings, "rtt_ms"))
                @@ Opt(direct_rtts # <<>>,
                       [direct_rtt_mean |-> mean(direct_rtts),
                        direct_rtt_p95 |-> p95(direct_rtts)])
                @@ Opt(relay_rtts # <<>>, [relay_rtt_mean |-> mean(relay_rtts)])
                @@ Opt(hole_punches # <<>>,
                       [hole_punch_time_s |->
                            Get(hole_punches[1], "time_to_direct_s", 0)])
                @@ Opt(reconnects # <<>>,
                       [reconnect_mean_ms |-> mean(recon_times),
                        reconnect_max_ms |-> max(recon_times)])
                @@ Opt(pings # <<>>,
                       [duration_s |-> Get(pings[Len(pings)], "elapsed_s", 0)])
                @@ Opt(summaries # <<>>,
                       [total_disconnected_s |->
                            Get(LastSummary(summaries), "total_disconnected_s", 0)]))

\* format(x, ".0f"): to the nearest integer, a tie to the even one
Fmt0(x) ==
    LET q == x[1] \div x[2]
        r == x[1] % x[2]
    IN  IF 2 * r < x[2] THEN q
        ELSE IF 2 * r > x[2] THEN q + 1
        ELSE IF q % 2 = 0 THEN q ELSE q + 1

OptLine(cond, line) == IF cond THEN <<line>> ELSE <<>>

print_single(r) ==
    << [k |-> "file", v |-> r.file],
       [k |-> "Duration", v |-> Get(r, "duration_s", 0)],
       [k |-> "Total pings", n |-> r.total_pings],
       [k |-> "Direct", n |-> r.direct_pings, pct |-> Fmt0(r.direct_pct)],
       [k |-> "Relay", n |-> r.relay_pings] >>
    \o OptLine(Has(r, "rtt_mean"),
               [k |-> "RTT (all)", mean |-> Get(r, "rtt_mean", 0),
                median |-> Get(r, "rtt_median", 0), p95 |-> Get(r, "rtt_p95", 0),
                min |-> Get(r, "rtt_min", 0), max |-> Get(r, "rtt_max", 0)])
    \o OptLine(Has(r, "direct_rtt_mean"),
               [k |-> "RTT (direct)", mean |-> Get(r, "direct_rtt_mean", 0),
                p95 |-> Get(r, "direct_rtt_p95", 0)])
    \o OptLine(Has(r, "relay_rtt_mean"),
               [k |-> "RTT (relay)", mean |-> Get(r, "relay_rtt_mean", 0)])
    \o OptLine(Has(r, "hole_punch_time_s"),
               [k |-> "Hole punch", v |-> Get(r, "hole_punch_time_s", 0)])
    \o << [k |-> "Path changes", n |-> r.path_changes],
          [k |-> "Disconnections", n |-> r.disconnections],
          [k |-> "Reconnections", n |-> r.reconnections] >>
    \o OptLine(Has(r, "reconnect_mean_ms"),
               [k |-> "Reconnect time", mean |-> Get(r, "reconnect_mean_ms", 0),
                max |-> Get(r, "reconnect_max_ms", 0)])
    \o OptLine(Has(r, "total_disconnected_s"),
               [k |-> "Total downtime", v |-> Get(r, "total_disconnected_s", 0)])

\* a cell that shows "-" when the key is absent
Cell(r, key) == [dash |-> ~Has(r, key), v |-> Get(r, key, 0)]

ComparisonRow(r) ==
    [k |-> "row", name |-> r.file, pings |-> r.total_pings,
     direct |-> Fmt0(r.direct_pct),
     rtt |-> Get(r, "direct_rtt_mean", Get(r, "rtt_mean", Rat(0, 1))),
     punch |-> Cell(r, "hole_punch_time_s"),
     discon |-> r.disconnections, recon |-> r.reconnections,
     down |-> Cell(r, "total_disconnected_s")]

\* min, max and statistics.mean over floats
RECURSIVE minR(_)
minR(s) ==
    IF Len(s) = 1 THEN s[1]
    ELSE LET m == minR(SubSeq(s, 1, Len(s) - 1))
         IN  IF RLeq(m, s[Len(s)]) THEN m ELSE s[Len(s)]

RECURSIVE maxR(_)
maxR(s) ==
    IF Len(s) = 1 THEN s[1]
    ELSE LET m == maxR(SubSeq(s, 1, Len(s) - 1))
         IN  IF RLeq(s[Len(s)], m) THEN m ELSE s[Len(s)]

RECURSIVE sumR(_)
sumR(s) == IF s = <<>> THEN Rat(0, 1) ELSE RAdd(Head(s), sumR(Tail(s)))

meanR(s) == LET t == sumR(s) IN Rat(t[1], t[2] * Len(s))

AggregateFirst(rs) ==
    LET all_direct == <<rs[1].direct_pct>>
    IN  << [k |-> "Average direct", mean |-> Fmt0(meanR(all_direct)),
            min |-> Fmt0(minR(all_direct)), max |-> Fmt0(maxR(all_direct))],
           [k |-> "Total", discon |-> rs[1].disconnections,
            recon |-> rs[1].reconnections] >>

Aggregate(rs) ==
    LET all_direct == [j \in DOMAIN rs |-> rs[j].direct_pct]
    IN  << [k |-> "Average direct", mean |-> Fmt0(meanR(all_direct)),
            min |-> Fmt0(minR(all_direct)), max |-> Fmt0(maxR(all_direct))],
           [k |-> "Total",
            discon |-> sum([j \in DOMAIN rs |-> rs[j].disconnections]),
            recon |-> sum([j \in DOMAIN rs |-> rs[j].reconnections])] >>

print_comparison(rs) ==
    << [k |-> "COMPARISON TABLE"] >>
    \o [j \in DOMAIN rs |-> ComparisonRow(rs[j])]
    \o Aggregate(rs)

(***************************************************************************)
(* Inputs.                                                                 *)
(***************************************************************************)
SeqsUpTo(S, n) == UNION {[1..m -> S] : m \in 0..n}

Paths == 1..MaxFiles

Ping(rtt, via) == Obj([event |-> "ping", rtt_ms |-> rtt, via |-> via])

PingNoRtt == Obj([event |-> "ping", via |-> "DIRECT"])

Disconnected == Obj([event |-> "disconnected"])

Reconnected(ms) == Obj([event |-> "reconnected", reconnect_time_ms |-> ms])

ReconnectedNoTime == Obj([event |-> "reconnected"])

Summary(total, ok, reconn) ==
    Obj([event |-> "summary", total_pings |-> total, successful |-> ok,
         failed |-> total - ok, reconnections |-> reconn,
         total_disconnected_s |-> reconn])

\* the files a path of a batch may name: missing, without any event, 90%
\* direct with 2 disconnects, 60% direct, 33% direct with a summary, without
\* pings, with a ping that has no rtt_ms, with a JSON line that is no object
BatchFiles ==
    { Missing,
      File(<<Blank, NotJson>>),
      File([q \in 1..9 |-> Ping(1, "DIRECT")]
           \o <<Disconnected, Ping(3, "RELAY"), Disconnected>>),
      File(<<Ping(2, "DIRECT"), Ping(2, "RELAY"), Ping(1, "DIRECT"),
             Reconnected(5), Ping(3, "RELAY"), Ping(2, "DIRECT")>>),
      File(<<Ping(1, "RELAY"), Ping(2, "DIRECT"), Ping(2, "RELAY"),
             Summary(3, 3, 1)>>),
      File(<<Disconnected>>),
      File(<<Ping(1, "DIRECT"), PingNoRtt>>),
      File(<<Ping(1, "DIRECT"), Scalar>>) }

(***************************************************************************)
(* The batch: main() of either script over the paths of argv.              *)
(***************************************************************************)
Init ==
    /\ prog \in {"stress", "results"}
    /\ argv \in SeqsUpTo(Paths, MaxFiles)
    /\ disk \in [Paths -> BatchFiles]
    /\ pc = "start"
    /\ i = 0
    /\ printed = 0
    /\ results = <<>>
    /\ out = <<>>
    /\ exit = -1
    /\ input = <<>>
    /\ applied = "none"
    /\ ret = Ok(<<>>)

\* one pass of the loop body of analyze-stress.py: the lines it prints
StressFile(path, file) ==
    LET loaded == load_events(file)
    IN  IF loaded.exc # "none" THEN loaded
        ELSE IF loaded.val = <<>> THEN Ok(<< [k |-> "empty", label |-> path] >>)
        ELSE StressReport(loaded.val, path)

SUsage ==
    /\ prog = "stress" /\ pc = "start" /\ argv = <<>>
    /\ out' = Append(out, [k |-> "Usage"])
    /\ exit' = 1
    /\ pc' = "exited"
    /\ UNCHANGED <<prog, argv, disk, i, printed, results, fnVars>>

SBanner ==
    /\ prog = "stress" /\ pc = "start" /\ argv # <<>>
    /\ out' = out \o << [k |-> "banner"], [k |-> "Files", n |-> Len(argv)] >>
    /\ pc' = "loop"
    /\ UNCHANGED <<prog, argv, disk, i, printed, results, exit, fnVars>>

\* an exception of the loop body is not caught: the traceback ends the process
SProcessFile ==
    /\ prog = "stress" /\ pc = "loop" /\ i < Len(argv)
    /\ LET path == sorted(argv)[i + 1]
           r == StressFile(path, disk[path])
       IN  IF r.exc = "none"
           THEN /\ out' = out \o r.val
                /\ i' = i + 1
                /\ UNCHANGED <<pc, exit>>
           ELSE /\ out' = Append(out, [k |-> "Traceback", exc |-> r.exc,
                                       path |-> path])
                /\ pc' = "exited"
                /\ exit' = 1
                /\ UNCHANGED i
    /\ UNCHANGED <<prog, argv, disk, printed, results, fnVars>>

SDone ==
    /\ prog = "stress" /\ pc = "loop" /\ i = Len(argv)
    /\ out' = Append(out, [k |-> "Done"])
    /\ exit' = 0
    /\ pc' = "exited"
    /\ UNCHANGED <<prog, argv, disk, i, printed, results, fnVars>>

RUsage ==
    /\ prog = "results" /\ pc = "start" /\ argv = <<>>
    /\ out' = Append(out, [k |-> "Usage"])
    /\ exit' = 1
    /\ pc' = "exited"
    /\ UNCHANGED <<prog, argv, disk, i, printed, results, fnVars>>

RAnalyzeNext ==
    /\ prog = "results" /\ pc = "start" /\ i < Len(argv)
    /\ LET f == argv[i + 1]
           r == analyze_file(f, disk[f])
       IN  IF r.exc = "none"
           THEN /\ results' = Append(results, r.val)
                /\ UNCHANGED out
           ELSE IF r.exc = "FileNotFoundError"
           THEN /\ out' = Append(out, [k |-> "SKIP", path |-> f])
                /\ UNCHANGED results
           ELSE /\ out' = Append(out, [k |-> "ERROR", path |-> f, exc |-> r.exc])
                /\ UNCHANGED results
    /\ i' = i + 1
    /\ UNCHANGED <<prog, argv, disk, pc, printed, exit, fnVars>>

RNoResults ==
    /\ prog = "results" /\ pc = "start" /\ argv # <<>> /\ i = Len(argv)
    /\ results = <<>>
    /\ out' = Append(out, [k |-> "No valid results to analyze."])
    /\ exit' = 1
    /\ pc' = "exited"
    /\ UNCHANGED <<prog, argv, disk, i, printed, results, fnVars>>

RPrintSingleEarly ==
    /\ prog = "results" /\ pc = "start" /\ argv # <<>>
    /\ printed < Len(results)
    /\ out' = out \o print_single(results[printed + 1])
    /\ printed' = printed + 1
    /\ UNCHANGED <<prog, argv, disk, pc, i, results, exit, fnVars>>

RPrintSingle ==
    /\ prog = "results" /\ pc = "start" /\ argv # <<>> /\ i = Len(argv)
    /\ printed < Len(results)
    /\ out' = out \o print_single(results[printed + 1])
    /\ printed' = printed + 1
    /\ UNCHANGED <<prog, argv, disk, pc, i, results, exit, fnVars>>

RFinish ==
    /\ prog = "results" /\ pc = "start" /\ argv # <<>> /\ i = Len(argv)
    /\ results # <<>> /\ printed = Len(results)
    /\ out' = IF Len(results) > 1 THEN out \o print_comparison(results) ELSE out
    /\ exit' = 0
    /\ pc' = "exited"
    /\ UNCHANGED <<prog, argv, disk, i, printed, results, fnVars>>

NextStress == SUsage \/ SBanner \/ SProcessFile \/ SDone

NextResults == RUsage \/ RAnalyzeNext \/ RNoResults \/ RPrintSingle \/ RFinish

Next == NextStress \/ NextResults

Spec == Init /\ [][Next]_vars

(***************************************************************************)
(* One file through the per-file functions.  The file is drawn from the    *)
(* sequences of at most MaxLines lines over one of four families of lines. *)
(***************************************************************************)
LoaderLines ==
    { Blank, NotJson, Scalar, Ping(1, "DIRECT"), Summary(2, 1, 0) }

PingLines ==
    { Ping(1, "DIRECT"), Ping(3, "RELAY"), Summary(2, 1, 0), Summary(5, 4, 2),
      Obj([event |-> "summary"]),
      Obj([event |-> "path_change", kind |-> "direct"]) }

GapLines ==
    { PingNoRtt, Ping(2, "DIRECT"), ReconnectedNoTime, Reconnected(4),
      Disconnected, Obj([event |-> "hole_punch", time_to_direct_s |-> 1]) }

TrialLines ==
    { Ping(1, "DIRECT"),
      Obj([event |-> "ladder_result", size |-> 512, successful |-> 5,
           failed |-> 0, rtt_min_ms |-> 1, rtt_avg_ms |-> 2, rtt_max_ms |-> 3]),
      Obj([event |-> "ladder_result", size |-> 2048, successful |-> 0,
           failed |-> 5]),
      Obj([event |-> "burst_result", round |-> 1, messages_sent |-> 4,
           messages_acked |-> 0, lost |-> 4, payload_size |-> 512]),
      Obj([event |-> "fanout_result", target_count |-> 3, total_sent |-> 3,
           total_delivered |-> 0, total_failed |-> 3]) }

LineFamilies == {LoaderLines, PingLines, GapLines, TrialLines}

IdleBatch ==
    /\ prog = "none"
    /\ argv = <<>>
    /\ disk = [p \in Paths |-> Missing]
    /\ pc = "exited"
    /\ i = 0
    /\ printed = 0
    /\ results = <<>>
    /\ out = <<>>
    /\ exit = -1

InitFile ==
    /\ IdleBatch
    /\ \E family \in LineFamilies :
          \E ls \in SeqsUpTo(family, MaxLines) : input = File(ls)
    /\ applied = "none"
    /\ ret = Ok(<<>>)

\* main() of analyze-results.py on one file: its result, then its report
ResultsFile(path, file) ==
    LET a == analyze_file(path, file)
    IN  IF a.exc # "none" THEN a
        ELSE Ok([result |-> a.val, report |-> print_single(a.val)])

ApplyLoadEvents ==
    /\ applied = "none"
    /\ applied' = "load_events"
    /\ ret' = load_events(input)
    /\ UNCHANGED <<batchVars, input>>

ApplyStressFile ==
    /\ applied = "none"
    /\ applied' = "stress"
    /\ ret' = StressFile(1, input)
    /\ UNCHANGED <<batchVars, input>>

ApplyResultsFile ==
    /\ applied = "none"
    /\ applied' = "results"
    /\ ret' = ResultsFile(1, input)
    /\ UNCHANGED <<batchVars, input>>

NextFile == ApplyLoadEvents \/ ApplyStressFile \/ ApplyResultsFile

SpecFile == InitFile /\ [][NextFile]_vars

(***************************************************************************)
(* The RTT statistics of both scripts over one sequence of RTTs: two runs  *)
(* of up to MaxRun equal values and a run of up to MaxTail, the values of  *)
(* the runs in any order.                                                  *)
(***************************************************************************)
Rep(v, n) == [q \in 1..n |-> v]

RttValues == {1, 2, 3}

RttInputs ==
    { Rep(a, x) \o Rep(b, y) \o Rep(c, z) :
        a \in RttValues, b \in RttValues, c \in RttValues,
        x \in 0..MaxRun, y \in 0..MaxRun, z \in 0..MaxTail }

InitStats ==
    /\ IdleBatch
    /\ input \in RttInputs
    /\ applied = "none"
    /\ ret = Ok(<<>>)

ApplyStressRtt ==
    /\ applied = "none"
    /\ input # <<>>
    /\ applied' = "stress_rtt"
    /\ ret' = Ok(StressRttLines(input))
    /\ UNCHANGED <<batchVars, input>>

ApplyResultsRtt ==
    /\ applied = "none"
    /\ applied' = "results_rtt"
    /\ ret' = Ok(ResultsRttStats(input))
    /\ UNCHANGED <<batchVars, input>>

NextStats == ApplyStressRtt \/ ApplyResultsRtt

SpecStats == InitStats /\ [][NextStats]_vars

(***************************************************************************)
(* Claims.                                                                 *)
(***************************************************************************)
IsRecordLine(line) == line.t = "object"

RecordLines(ls) == SelectSeq(ls, IsRecordLine)

\* C1: the loader returns exactly the lines that are well-formed key/value
\* records, in file order, and skips every other line (blank, not JSON, or a
\* JSON value that is no record) without failing.
C1_LoaderKeepsExactlyTheRecords ==
    (applied = "load_events" /\ input.exists)
        => /\ ret.exc = "none"
           /\ Len(ret.val) = Len(RecordLines(input.lines))
           /\ \A q \in DOMAIN ret.val :
                 /\ ret.val[q].isdict
                 /\ ret.val[q].d = RecordLines(input.lines)[q].d

\* the files of the batch in the order main() takes them
BatchOrder == IF prog = "stress" THEN sorted(argv) ELSE argv

FileFails(q) ==
    LET path == BatchOrder[q]
    IN  IF prog = "stress" THEN StressFile(path, disk[path]).exc # "none"
        ELSE analyze_file(path, disk[path]).exc # "none"

\* C2: a file that fails (not found, or an error while it is analysed) never
\* aborts the batch: when the process has exited, the loop has gone past
\* every failing file that has a path after it.
C2_FailureNeverAbortsBatch ==
    pc = "exited"
        => \A q \in 1..Len(argv) : (FileFails(q) /\ q < Len(argv)) => i > q

\* a file has yielded results when the loop has gone past it, it loaded, it
\* held at least one event and it was analysed without error
YieldsResults(q) ==
    LET path == BatchOrder[q]
        loaded == load_events(disk[path])
    IN  q <= i /\ loaded.exc = "none" /\ loaded.val # <<>> /\ ~FileFails(q)

\* C3: the exit code is 1 without paths and 1 when no file yielded results
\* (every file failed to load or yielded zero events); it is 0 exactly when
\* at least one file yielded results.
C3_ExitCodeReflectsResults ==
    (pc = "exited" /\ prog # "none")
        => /\ exit \in {0, 1}
           /\ (argv = <<>>) => exit = 1
           /\ (exit = 0) <=> (\E q \in 1..Len(argv) : YieldsResults(q))

Lines(k) == SelectSeq(ret.val, LAMBDA l : l.k = k)

IsSummaryLine(line) ==
    line.t = "object" /\ Has(line.d, "event") /\ line.d["event"] = "summary"

IsPingLine(line) ==
    line.t = "object" /\ Has(line.d, "event") /\ line.d["event"] = "ping"

SummaryPositions == {q \in DOMAIN input.lines : IsSummaryLine(input.lines[q])}

PingPositions == {q \in DOMAIN input.lines : IsPingLine(input.lines[q])}

\* the summary record that no other summary record follows in the file
FinalSummary ==
    input.lines[CHOOSE q \in SummaryPositions :
                    \A r \in SummaryPositions : r <= q].d

\* C4: when the file holds summary records and a ping report is printed, its
\* success-rate and reconnection lines show the successful, total_pings and
\* reconnections of the last summary record of the file, whatever the pings
\* and the earlier summary records are (no rate is shown for a total of 0);
\* the downtime of analyze-results.py is the last summary record's too.
C4_LastSummaryIsAuthoritative ==
    /\ (applied = "stress" /\ ret.exc = "none" /\ SummaryPositions # {}
            /\ Lines("Total pings") # <<>>)
        => /\ Len(Lines("Reconnections")) = 1
           /\ Lines("Reconnections")[1].v = Get(FinalSummary, "reconnections", 0)
           /\ IF Get(FinalSummary, "total_pings", 0) # 0
              THEN /\ Len(Lines("Success rate")) = 1
                   /\ Lines("Success rate")[1].ok
                          = Get(FinalSummary, "successful", 0)
                   /\ Lines("Success rate")[1].total = FinalSummary.total_pings
              ELSE Lines("Success rate") = <<>>
    /\ (applied = "results" /\ ret.exc = "none" /\ SummaryPositions # {})
        => ret.val.result.total_disconnected_s
               = Get(FinalSummary, "total_disconnected_s", 0)

\* a ping report whose last summary record differs from an earlier one and
\* whose total_pings differs from the number of ping records
C4_Witness ==
    /\ applied = "stress" /\ ret.exc = "none"
    /\ Cardinality(SummaryPositions) >= 2
    /\ \E q \in SummaryPositions :
          /\ Get(input.lines[q].d, "successful", 0)
                 # Get(FinalSummary, "successful", 0)
          /\ Get(input.lines[q].d, "total_pings", 0)
                 \notin {0, Get(FinalSummary, "total_pings", 0)}
    /\ Len(Lines("Success rate")) = 1
    /\ Lines("Success rate")[1].total # Lines("Total pings")[1].n

\* C5: for every non-empty sequence of RTTs the statistics either script
\* reports satisfy min <= median <= p95 <= max and min <= mean <= max.
C5_RttStatisticsOrdered ==
    /\ applied = "stress_rtt"
        => LET mn == Lines("RTT min")[1].v
               mx == Lines("RTT max")[1].v
               avg == Lines("RTT avg")[1].v
           IN  /\ RLeq(mn, avg) /\ RLeq(avg, mx)
               /\ \A q \in DOMAIN input : mn[1] <= input[q] /\ input[q] <= mx[1]
               /\ Lines("RTT median") # <<>>
                    => /\ RLeq(mn, Lines("RTT median")[1].v)
                       /\ RLeq(Lines("RTT median")[1].v, Lines("RTT p95")[1].v)
                       /\ RLeq(Lines("RTT p95")[1].v, mx)
    /\ (applied = "results_rtt" /\ input # <<>>)
        => LET r == ret.val
           IN  /\ RLeq(r.rtt_min, r.rtt_median)
               /\ RLeq(r.rtt_median, r.rtt_p95)
               /\ RLeq(r.rtt_p95, r.rtt_max)
               /\ RLeq(r.rtt_min, r.rtt_mean) /\ RLeq(r.rtt_mean, r.rtt_max)
               /\ \A q \in DOMAIN input :
                     r.rtt_min[1] <= input[q] /\ input[q] <= r.rtt_max[1]

\* twenty or more RTTs whose p95 lies strictly between the median and the max
C5_Witness ==
    /\ applied = "results_rtt" /\ Len(input) >= 20
    /\ ~RLeq(ret.val.rtt_max, ret.val.rtt_p95)
    /\ ~RLeq(ret.val.rtt_p95, ret.val.rtt_median)

\* C6: for a file without ping records no ping summary is produced or
\* rendered: no ping section, no ping count, no direct percentage.
C6_NoPingSummaryWithoutPings ==
    (applied \in {"stress", "results"} /\ ret.exc = "none" /\ PingPositions = {})
        => IF applied = "stress"
           THEN Lines("Total pings") = <<>>
           ELSE /\ ~Has(ret.val.result, "total_pings")
                /\ ~Has(ret.val.result, "direct_pct")
                /\ \A q \in DOMAIN ret.val.report :
                      ret.val.report[q].k \notin {"Total pings", "Direct"}

OutLines(k) == SelectSeq(out, LAMBDA l : l.k = k)

\* the integer p is x to the nearest integer
Near(p, x) == 2 * (p * x[2] - x[1]) <= x[2] /\ 2 * (x[1] - p * x[2]) <= x[2]

RECURSIVE DenProduct(_)
DenProduct(n) ==
    IF n = 0 THEN 1 ELSE results[n].direct_pct[2] * DenProduct(n - 1)

RECURSIVE ScaledPctSum(_, _)
ScaledPctSum(n, den) ==
    IF n = 0 THEN 0
    ELSE results[n].direct_pct[1] * (den \div results[n].direct_pct[2])
         + ScaledPctSum(n - 1, den)

\* the lines of the analysed files that hold an event of this kind
EventLines(kind) ==
    UNION { { <<q, l>> : l \in { m \in DOMAIN disk[results[q].file].lines :
                                   LET line == disk[results[q].file].lines[m]
                                   IN  /\ line.t = "object"
                                       /\ Has(line.d, "event")
                                       /\ line.d["event"] = kind } }
            : q \in DOMAIN results }

\* C7: with two or more analysed files the comparison table has one row per
\* file, in order, and its aggregate line shows the mean, the minimum and the
\* maximum of the files' direct percentages (to the nearest percent) and the
\* sums of their disconnect and reconnect counts; with one analysed file no
\* comparison table is printed.
C7_ComparisonTable ==
    (prog = "results" /\ pc = "exited" /\ exit = 0)
        => IF Len(results) >= 2
           THEN /\ Len(OutLines("COMPARISON TABLE")) = 1
                /\ Len(OutLines("row")) = Len(results)
                /\ \A q \in DOMAIN results :
                      /\ OutLines("row")[q].name = results[q].file
                      /\ OutLines("row")[q].discon = results[q].disconnections
                /\ Len(OutLines("Average direct")) = 1
                /\ Len(OutLines("Total")) = 1
                /\ LET agg == OutLines("Average direct")[1]
                       tot == OutLines("Total")[1]
                       den == DenProduct(Len(results))
                   IN  /\ \E q \in DOMAIN results :
                             /\ Near(agg.min, results[q].direct_pct)
                             /\ \A r \in DOMAIN results :
                                   RLeq(results[q].direct_pct, results[r].direct_pct)
                       /\ \E q \in DOMAIN results :
                             /\ Near(agg.max, results[q].direct_pct)
                             /\ \A r \in DOMAIN results :
                                   RLeq(results[r].direct_pct, results[q].direct_pct)
                       /\ Near(agg.mean, Rat(ScaledPctSum(Len(results), den),
                                             den * Len(results)))
                       /\ tot.discon = Cardinality(EventLines("disconnected"))
                       /\ tot.recon = Cardinality(EventLines("reconnected"))
           ELSE /\ OutLines("COMPARISON TABLE") = <<>>
                /\ OutLines("row") = <<>>
                /\ OutLines("Average direct") = <<>>

\* two files, 90% direct with 2 disconnects and 60% direct with none:
\* mean 75, min 60, max 90, 2 disconnections in all
C7_Witness ==
    /\ prog = "results" /\ pc = "exited" /\ Len(results) = 2
    /\ results[1].disconnections = 2 /\ results[2].disconnections = 0
    /\ OutLines("Average direct")
          = << [k |-> "Average direct", mean |-> 75, min |-> 60, max |-> 90] >>
    /\ OutLines("Total")[1].discon = 2

RecordsOfKind(kind) ==
    SelectSeq(input.lines,
              LAMBDA l : l.t = "object" /\ Has(l.d, "event") /\ l.d["event"] = kind)

AllRecordLines == \A q \in DOMAIN input.lines : IsRecordLine(input.lines[q])

\* C8: a record without its required field (a ping without rtt_ms, a
\* reconnected without reconnect_time_ms) is left out of that metric only:
\* the analysis of a file whose lines are all records completes, and the
\* other metrics are produced.
C8_MissingFieldIsNotFatal ==
    (applied \in {"stress", "results"} /\ input.exists /\ AllRecordLines)
        => /\ ret.exc = "none"
           /\ applied = "results"
                => ret.val.result.disconnections
                      = Len(RecordsOfKind("disconnected"))

\* C9: a statistic that cannot be computed is left out and never shown as
\* zero: no stddev line with fewer than 2 RTT samples, and no zero RTT for a
\* ladder, burst or fanout record without its RTT fields.
C9_UnavailableMetricOmitted ==
    (applied = "stress" /\ ret.exc = "none")
        => /\ Cardinality(PingPositions) < 2 => Lines("RTT stddev") = <<>>
           /\ \A q \in DOMAIN Lines("ladder row") :
                 ~Has(RecordsOfKind("ladder_result")[q].d, "rtt_min_ms")
                     => Lines("ladder row")[q].rmin # 0
           /\ \A q \in DOMAIN Lines("RTT") :
                 ~Has(RecordsOfKind("burst_result")[q].d, "rtt_min_ms")
                     => Lines("RTT")[q].rmin # 0
           /\ \A q \in DOMAIN Lines("Avg RTT") :
                 ~Has(RecordsOfKind("fanout_result")[q].d, "avg_rtt_ms")
                     => Lines("Avg RTT")[q].v # 0

Banner == << [k |-> "banner"], [k |-> "Files", n |-> Len(argv)] >>

\* what analyze-stress.py has printed once the first n files are done
RECURSIVE StressOutput(_)
StressOutput(n) ==
    IF n = 0 THEN Banner
    ELSE StressOutput(n - 1)
         \o StressFile(sorted(argv)[n], disk[sorted(argv)[n]]).val

\* the results of the first n files of argv that analyse without error
RECURSIVE Analysed(_)
Analysed(n) ==
    IF n = 0 THEN <<>>
    ELSE LET a == analyze_file(argv[n], disk[argv[n]])
         IN  IF a.exc = "none" THEN Append(Analysed(n - 1), a.val)
             ELSE Analysed(n - 1)

\* C10 as stated: a file is loaded, aggregated and its report rendered
\* before the next file is loaded, and a result is in the accumulation list
\* only once its own report has been rendered.
C10_RenderedBeforeNextAndBeforeAppend ==
    /\ (prog = "stress" /\ pc = "loop") => out = StressOutput(i)
    /\ prog = "results" => Len(results) <= printed

\* C10 amended: files are loaded and aggregated one at a time in order;
\* analyze-stress.py has rendered a file's report before it loads the next
\* and accumulates nothing; analyze-results.py appends a file's result as
\* soon as the file is analysed, and renders the reports, in list order,
\* only after the last file has been analysed.
C10_OneFileAtATime ==
    /\ (prog = "stress" /\ pc = "loop") => out = StressOutput(i)
    /\ prog = "stress" => results = <<>> /\ printed = 0
    /\ prog = "results"
        => /\ results = Analysed(i)
           /\ printed <= Len(results)
           /\ printed > 0 => i = Len(argv)
           /\ OutLines("file") = [q \in 1..printed |-> print_single(results[q])[1]]

\* the first report is rendered when the second file is already analysed and
\* in the list
C10_Witness ==
    prog = "results" /\ pc = "start" /\ i = 2 /\ Len(results) = 2 /\ printed = 1

\* floor(n * 0.95): the k with k <= 0.95 n < k + 1
FloorOf95Percent(n) ==
    CHOOSE k \in 0..n : 100 * k <= 95 * n /\ 95 * n < 100 * (k + 1)

\* v is the element at 0-based index k of the ascending order of input
IsAtSortedIndex(v, k) ==
    /\ Cardinality({q \in DOMAIN input : input[q] < v}) <= k
    /\ Cardinality({q \in DOMAIN input : input[q] <= v}) > k

\* C11: the p95 either script reports is the element at index floor(n * 0.95)
\* of the ascending-sorted RTTs, and for every length n >= 1 that index is
\* below n, so the lookup stays inside the sequence (index 4 for n = 5).
C11_P95IndexInBounds ==
    (applied \in {"stress_rtt", "results_rtt"} /\ input # <<>>)
        => LET n == Len(input)
               k == FloorOf95Percent(n)
           IN  /\ P95Index(n) = k
               /\ P95Index(n) < n
               /\ n = 5 => P95Index(n) = 4
               /\ applied = "results_rtt"
                    => /\ Has(ret.val, "rtt_p95")
                       /\ ret.val.rtt_p95[2] = 1
                       /\ IsAtSortedIndex(ret.val.rtt_p95[1], k)
               /\ (applied = "stress_rtt" /\ n > 1)
                    => /\ Len(Lines("RTT p95")) = 1
                       /\ IsAtSortedIndex(Lines("RTT p95")[1].v[1], k)

\* five RTTs with a single largest one: index 4, the largest element
C11_Witness ==
    /\ applied = "results_rtt" /\ Len(input) = 5
    /\ ret.val.rtt_p95 = Rat(3, 1)
    /\ Cardinality({q \in DOMAIN input : input[q] = 3}) = 1

====
